---- MODULE Spec2Model ----
(***************************************************************************)
(* Reminder and recurrence engine of the todo store: the task table, the   *)
(* service operations of common/service.py, the polling loop of            *)
(* common/scheduler.py and the REST handlers that write the table.         *)
(*                                                                         *)
(* A datetime is the number of clock readings (Hz to the second) since    *)
(* Monday 2024-01-01 00:00:00 local time.                                  *)
(* A NULL datetime column is None, a NULL repeat_rule is NoRule.  The      *)
(* title and note columns carry display text only and are left out.        *)
(***************************************************************************)
EXTENDS Integers, Sequences, FiniteSets, TLC

\* ---------------------------------------------------------------- bounds
MaxTodos == 2          \* ids the autoincrement key may hand out
MaxDay == 1            \* last calendar day the clock reaches
MaxUserOps == 2        \* user operations in one behaviour
Hz == 2                \* clock readings told apart within one second
MaxExtras == 2         \* rows beside the latest cohort in an acknowledged table
MaxYears == 2          \* calendar years the recurrence calculator is run over

\* ------------------------------------------------------ program constants
TickSeconds == 60 * Hz          \* time.sleep(60)
RetrySeconds == 600 * Hz        \* timedelta(minutes=10)
MaxReminds == 3            \* remind_count < 3, new_count >= 3
PageLimit == 50            \* .limit(50)
RecoverWindowSeconds == 300 * Hz    \* now.hour == 0 and now.minute < 5
RecoverSpacingSeconds == 3600 * Hz  \* total_seconds() > 3600
DaySeconds == 86400 * Hz        \* timedelta(days=1)
EpochYear == 2024          \* year of second 0 (1 January 2024 is a Monday)

None == -1
NoRule == "none"
Users == {"u1", "u2"}
Owners == {"u1"}           \* the users who create tasks

\* Rules the recurrence calculator recognises, and the ones clients send in
\* the model: one recognised rule and one string the calculator does not
\* know (the column comment of Todo.repeat_rule speaks of cron expressions).
KnownRules == {"daily", "workday", "weekly", "monthly"}
RuleInputs == {"daily", "cron"}

\* Instants at which the clock is observed: on the first day 00:00:00, one
\* tick later, and one and two retry gates later (the times of the second
\* and the third notification of a task due at 00:00:00); on every later
\* day 00:00:00.
Instants ==
    {0, TickSeconds} \cup { k * RetrySeconds : k \in 1..(MaxReminds - 1) }
        \cup { d * DaySeconds : d \in 1..MaxDay }

\* Reminder times a client may ask for.
RemindInputs == {0}

\* ------------------------------------------------------------- calendar
IsLeap(y) == (y % 4 = 0 /\ y % 100 # 0) \/ y % 400 = 0

\* calendar.monthrange(year, month)[1]
monthrange(y, m) ==
    IF m = 2 THEN (IF IsLeap(y) THEN 29 ELSE 28)
    ELSE IF m \in {4, 6, 9, 11} THEN 30 ELSE 31

\* datetime -> (year, month, day) of a day number counted from 1 Jan EpochYear
RECURSIVE CivilFrom(_, _, _)
CivilFrom(y, m, d) ==
    IF d < monthrange(y, m) THEN <<y, m, d + 1>>
    ELSE IF m = 12 THEN CivilFrom(y + 1, 1, d - monthrange(y, m))
    ELSE CivilFrom(y, m + 1, d - monthrange(y, m))

Civil(t) == CivilFrom(EpochYear, 1, t \div DaySeconds)

\* datetime(year, month, day, 0, 0, 0) as a day number
RECURSIVE DaysBefore(_, _)
DaysBefore(y, m) ==
    IF y = EpochYear /\ m = 1 THEN 0
    ELSE IF m = 1 THEN DaysBefore(y - 1, 12) + monthrange(y - 1, 12)
    ELSE DaysBefore(y, m - 1) + monthrange(y, m - 1)

DateTime(y, m, d, secOfDay) == (DaysBefore(y, m) + d - 1) * DaySeconds + secOfDay

\* datetime.weekday(): 0 = Monday ... 6 = Sunday
weekday(t) == (t \div DaySeconds) % 7

Min(a, b) == IF a <= b THEN a ELSE b

\* datetime.replace(microsecond=0)
replace_microsecond_0(t) == t - (t % Hz)

\* ------------------------------------------------- recurrence calculator
\* the monthly branch without the step into the next year
_calculate_next_remind_time_same_year(current_remind_at, repeat_rule) ==
    IF repeat_rule = NoRule \/ current_remind_at = None THEN None
    ELSE IF repeat_rule = "daily" THEN current_remind_at + DaySeconds
    ELSE IF repeat_rule = "workday" THEN
        IF weekday(current_remind_at) < 4
        THEN current_remind_at + DaySeconds
        ELSE current_remind_at + 3 * DaySeconds
    ELSE IF repeat_rule = "weekly" THEN current_remind_at + 7 * DaySeconds
    ELSE IF repeat_rule = "monthly" THEN
        LET c == Civil(current_remind_at)
            year == c[1]
            month == IF c[2] = 12 THEN 1 ELSE c[2] + 1
            day == Min(c[3], monthrange(year, month))
        IN DateTime(year, month, day,
                    replace_microsecond_0(current_remind_at % DaySeconds))
    ELSE None

\* the monthly branch without day = min(day, max_day)
_calculate_next_remind_time_day_kept(current_remind_at, repeat_rule) ==
    IF repeat_rule = NoRule \/ current_remind_at = None THEN None
    ELSE IF repeat_rule = "daily" THEN current_remind_at + DaySeconds
    ELSE IF repeat_rule = "workday" THEN
        IF weekday(current_remind_at) < 4
        THEN current_remind_at + DaySeconds
        ELSE current_remind_at + 3 * DaySeconds
    ELSE IF repeat_rule = "weekly" THEN current_remind_at + 7 * DaySeconds
    ELSE IF repeat_rule = "monthly" THEN
        LET c == Civil(current_remind_at)
            year == IF c[2] = 12 THEN c[1] + 1 ELSE c[1]
            month == IF c[2] = 12 THEN 1 ELSE c[2] + 1
        IN DateTime(year, month, c[3],
                    replace_microsecond_0(current_remind_at % DaySeconds))
    ELSE None

\* the workday branch without the test for Friday
_calculate_next_remind_time_next_day(current_remind_at, repeat_rule) ==
    IF repeat_rule = NoRule \/ current_remind_at = None THEN None
    ELSE IF repeat_rule = "daily" THEN current_remind_at + DaySeconds
    ELSE IF repeat_rule = "workday" THEN current_remind_at + DaySeconds
    ELSE IF repeat_rule = "weekly" THEN current_remind_at + 7 * DaySeconds
    ELSE IF repeat_rule = "monthly" THEN
        LET c == Civil(current_remind_at)
            year == IF c[2] = 12 THEN c[1] + 1 ELSE c[1]
            month == IF c[2] = 12 THEN 1 ELSE c[2] + 1
            day == Min(c[3], monthrange(year, month))
        IN DateTime(year, month, day,
                    replace_microsecond_0(current_remind_at % DaySeconds))
    ELSE None

\* a calculator that reads every rule it does not know as daily
_calculate_next_remind_time_unknown_is_daily(current_remind_at, repeat_rule) ==
    IF repeat_rule = NoRule \/ current_remind_at = None THEN None
    ELSE IF repeat_rule = "workday" THEN
        IF weekday(current_remind_at) < 4 THEN current_remind_at + DaySeconds
        ELSE current_remind_at + 3 * DaySeconds
    ELSE IF repeat_rule = "weekly" THEN current_remind_at + 7 * DaySeconds
    ELSE IF repeat_rule = "monthly" THEN
        LET c == Civil(current_remind_at)
            year == IF c[2] = 12 THEN c[1] + 1 ELSE c[1]
            month == IF c[2] = 12 THEN 1 ELSE c[2] + 1
            day == Min(c[3], monthrange(year, month))
        IN DateTime(year, month, day,
                    replace_microsecond_0(current_remind_at % DaySeconds))
    ELSE current_remind_at + DaySeconds

_calculate_next_remind_time(current_remind_at, repeat_rule) ==
    IF repeat_rule = NoRule \/ current_remind_at = None THEN None
    ELSE IF repeat_rule = "daily" THEN current_remind_at + DaySeconds
    ELSE IF repeat_rule = "workday" THEN
        IF weekday(current_remind_at) < 4
        THEN current_remind_at + DaySeconds
        ELSE current_remind_at + 3 * DaySeconds
    ELSE IF repeat_rule = "weekly" THEN current_remind_at + 7 * DaySeconds
    ELSE IF repeat_rule = "monthly" THEN
        LET c == Civil(current_remind_at)
            year == IF c[2] = 12 THEN c[1] + 1 ELSE c[1]
            month == IF c[2] = 12 THEN 1 ELSE c[2] + 1
            day == Min(c[3], monthrange(year, month))
        IN DateTime(year, month, day,
                    replace_microsecond_0(current_remind_at % DaySeconds))
    ELSE None

\* ----------------------------------------------------------------- state
VARIABLES
    todos,               \* the todos table: id -> row
    next_id,             \* next value of the autoincrement key
    now,                 \* the wall clock, datetime.now()
    pc,                  \* position of the scheduler thread
    due,                 \* _run: entries of the due list not yet dispatched
    m,                   \* mark_reminded: the row it selected
    last_recover_check,  \* _run: time of the last quarantine recovery
    dispatched,          \* ids sent and passed to mark_reminded in this tick
    _stop,               \* the threading.Event that stop() sets
    fetched,             \* history: the due list as this tick read it
    tried,               \* history: the sends of this tick and how they ended
    faults,              \* history: what raised in the latest tick
    lastOp,              \* history: the last operation that ran on the table
    run,                 \* history: notification outcomes in a row, per task
    between,             \* history: user operation between select and update
    ops,                 \* history: number of user operations so far
    sent                 \* history: notifications sent per task since its
                         \*          remind_count was last reset, in this run of
                         \*          the scheduler

vars == <<todos, next_id, now, pc, due, m, last_recover_check,
          dispatched, _stop, fetched, tried, faults, lastOp, run, between, ops, sent>>

sched == <<pc, due, m, last_recover_check, dispatched, _stop, fetched, tried, faults>>

NoRow == [status |-> "absent"]
NoMark == [id |-> 0, row |-> NoRow]
NoBetween == [k |-> 0, op |-> "none", a |-> None, b |-> FALSE]
Ids == 1..MaxTodos

\* Todo(user_id=..., remind_at=..., status="pending") with the column defaults
Todo(user_id, remind_at, repeat_rule) ==
    [user_id |-> user_id, status |-> "pending", remind_at |-> remind_at,
     repeat_rule |-> repeat_rule, reminded |-> FALSE, remind_count |-> 0,
     last_remind_at |-> None, completed_at |-> None]

\* the select without Todo.user_id == user.id
Found_for_any_user(user, todo_id) == todo_id \in DOMAIN todos

\* select(Todo).where(Todo.id == todo_id, Todo.user_id == user.id)
Found(user, todo_id) == todo_id \in DOMAIN todos /\ todos[todo_id].user_id = user

\* ascending sequence of a set of ids (rows come back in primary-key order)
SortedSeq(S) ==
    IF S = {} THEN <<>>
    ELSE LET hi == CHOOSE y \in S : \A z \in S : z <= y
         IN SelectSeq([i \in 1..hi |-> i], LAMBDA i : i \in S)

Limit(s, n) == IF Len(s) <= n THEN s ELSE SubSeq(s, 1, n)

Range(s) == { s[i] : i \in DOMAIN s }

\* ---------------------------------------------------------- due-set query
\* the first query with Todo.remind_at < now_utc
initial_reminds_before_now(tb, now_utc) ==
    Limit(SortedSeq({ i \in DOMAIN tb :
        /\ tb[i].status = "pending"
        /\ tb[i].reminded = FALSE
        /\ tb[i].remind_at # None
        /\ tb[i].remind_at < now_utc }), PageLimit)

initial_reminds(tb, now_utc) ==
    Limit(SortedSeq({ i \in DOMAIN tb :
        /\ tb[i].status = "pending"
        /\ tb[i].reminded = FALSE
        /\ tb[i].remind_at # None
        /\ tb[i].remind_at <= now_utc }), PageLimit)

repeat_reminds(tb, now_utc) ==
    Limit(SortedSeq({ i \in DOMAIN tb :
        /\ tb[i].status = "pending"
        /\ tb[i].remind_count < MaxReminds
        /\ tb[i].last_remind_at # None
        /\ tb[i].last_remind_at <= now_utc - RetrySeconds }), PageLimit)

fetch_due_reminders(tb, now_utc) ==
    initial_reminds(tb, now_utc) \o repeat_reminds(tb, now_utc)

\* ------------------------------------------- notification outcome processor
\* update_dict setting reminded also when remind_at moves to the next occurrence
update_dict_stays_reminded(todo, at) ==
    LET new_count == todo.remind_count + 1
        status == IF new_count >= MaxReminds THEN "failed" ELSE todo.status
        next_remind_time ==
            IF todo.repeat_rule # NoRule /\ todo.remind_at # None
            THEN _calculate_next_remind_time(todo.remind_at, todo.repeat_rule)
            ELSE None
    IN [reminded |-> TRUE, remind_count |-> new_count,
        last_remind_at |-> at, status |-> status, remind_at |-> next_remind_time]

\* update_dict closing the task at the threshold instead of quarantining it
update_dict_closes(todo, at) ==
    LET new_count == todo.remind_count + 1
        status == IF new_count >= MaxReminds THEN "done" ELSE todo.status
        next_remind_time ==
            IF todo.repeat_rule # NoRule /\ todo.remind_at # None
            THEN _calculate_next_remind_time(todo.remind_at, todo.repeat_rule)
            ELSE None
    IN [reminded |-> (next_remind_time = None), remind_count |-> new_count,
        last_remind_at |-> at, status |-> status, remind_at |-> next_remind_time]

\* update_dict with the quarantine threshold off by one
update_dict_late(todo, at) ==
    LET new_count == todo.remind_count + 1
        status == IF new_count > MaxReminds THEN "failed" ELSE todo.status
        next_remind_time ==
            IF todo.repeat_rule # NoRule /\ todo.remind_at # None
            THEN _calculate_next_remind_time(todo.remind_at, todo.repeat_rule)
            ELSE None
    IN [reminded |-> (next_remind_time = None), remind_count |-> new_count,
        last_remind_at |-> at, status |-> status, remind_at |-> next_remind_time]

\* the update_dict of mark_reminded, computed from the row it selected
update_dict(todo, at) ==
    LET new_count == todo.remind_count + 1
        status == IF new_count >= MaxReminds THEN "failed" ELSE todo.status
        next_remind_time ==
            IF todo.repeat_rule # NoRule /\ todo.remind_at # None
            THEN _calculate_next_remind_time(todo.remind_at, todo.repeat_rule)
            ELSE None
    IN [reminded |-> (next_remind_time = None), remind_count |-> new_count,
        last_remind_at |-> at, status |-> status, remind_at |-> next_remind_time]

\* update(Todo).where(Todo.id == todo_id).values(**update_dict) on the stored row
apply_update(cur, d) ==
    [cur EXCEPT !.reminded = d.reminded, !.remind_count = d.remind_count,
                !.last_remind_at = d.last_remind_at, !.status = d.status,
                !.remind_at = IF d.remind_at # None THEN d.remind_at ELSE @]

\* select and update of mark_reminded with nothing in between
mark_reminded_row(t, at) == apply_update(t, update_dict(t, at))

\* -------------------------------------------------- user operations on a row
\* complete_todo without the branch for repeating tasks
complete_todo_row_closes(t, at) ==
    IF t.status = "done" THEN t
    ELSE [t EXCEPT !.status = "done", !.completed_at = at]

complete_todo_row(t, at) ==
    IF t.status = "done" THEN t
    ELSE IF t.repeat_rule # NoRule
    THEN [t EXCEPT !.status = "pending", !.remind_count = 0, !.last_remind_at = None]
    ELSE [t EXCEPT !.status = "done", !.completed_at = at]

edit_todo_row(t, new_time, clear_remind) ==
    IF clear_remind THEN [t EXCEPT !.remind_at = None, !.reminded = FALSE]
    ELSE IF new_time # None THEN [t EXCEPT !.remind_at = new_time, !.reminded = FALSE]
    ELSE t

update_todo_row(t, remind_at, repeat_rule) ==
    LET t1 == IF remind_at # None
              THEN [t EXCEPT !.remind_at = remind_at, !.reminded = FALSE] ELSE t
    IN IF repeat_rule # NoRule THEN [t1 EXCEPT !.repeat_rule = repeat_rule] ELSE t1

\* reset_failed_todo reopening the task with its remind_count kept
reset_failed_todo_row_keeps_count(t) ==
    IF t.status # "failed" THEN t
    ELSE [t EXCEPT !.status = "pending",
                   !.last_remind_at = None, !.reminded = FALSE]

reset_failed_todo_row(t) ==
    IF t.status # "failed" THEN t
    ELSE [t EXCEPT !.status = "pending", !.remind_count = 0,
                   !.last_remind_at = None, !.reminded = FALSE]

\* ------------------------------------------- acknowledgement resolver
\* the query without Todo.last_remind_at != None
reminded_todos_never_reminded_too(tb, user, status) ==
    { i \in DOMAIN tb : /\ tb[i].user_id = user
                        /\ tb[i].status = status }

\* rows of a user with the given status and last_remind_at set
reminded_todos(tb, user, status) ==
    { i \in DOMAIN tb : /\ tb[i].user_id = user
                        /\ tb[i].status = status
                        /\ tb[i].last_remind_at # None }

\* .order_by(Todo.last_remind_at.desc()).limit(50): the sets of rows the
\* query may return (rows with equal last_remind_at come in any order)
RECURSIVE Pages(_, _)
Pages(S, tb) ==
    IF Cardinality(S) <= PageLimit THEN {S}
    ELSE LET oldest == { j \in S : \A k \in S : tb[j].last_remind_at <= tb[k].last_remind_at }
         IN UNION { Pages(S \ {j}, tb) : j \in oldest }

\* todos[0].last_remind_at of a page
latest_remind_time(P, tb) ==
    tb[CHOOSE i \in P : \A k \in P : tb[k].last_remind_at <= tb[i].last_remind_at].last_remind_at

same_time_todos(P, tb) ==
    LET latest == replace_microsecond_0(latest_remind_time(P, tb))
    IN { i \in P : replace_microsecond_0(tb[i].last_remind_at) = latest }

\* the loop body over failed_todos without todo.reminded = False
resolve_failed_row_keeps_reminded(t, at) ==
    IF t.repeat_rule # NoRule
    THEN [t EXCEPT !.status = "pending", !.remind_count = 0, !.last_remind_at = None]
    ELSE [t EXCEPT !.status = "done", !.completed_at = at]

\* the loop body over failed_todos
resolve_failed_row(t, at) ==
    IF t.repeat_rule # NoRule
    THEN [t EXCEPT !.status = "pending", !.remind_count = 0,
                   !.last_remind_at = None, !.reminded = FALSE]
    ELSE [t EXCEPT !.status = "done", !.completed_at = at]

\* the loop body over same_time_todos
resolve_pending_row(t, at) ==
    IF t.status # "pending" THEN t
    ELSE IF t.repeat_rule # NoRule
    THEN [t EXCEPT !.status = "pending", !.remind_count = 0, !.last_remind_at = None]
    ELSE [t EXCEPT !.status = "done", !.completed_at = at]

\* -------------------------------------------------------- table operations
\* recover_failed_todos without the test for a repeat rule
recover_failed_todos_any_rule(tb) ==
    [i \in DOMAIN tb |->
        IF tb[i].status = "failed"
        THEN [tb[i] EXCEPT !.status = "pending", !.remind_count = 0,
                           !.last_remind_at = None, !.reminded = FALSE]
        ELSE tb[i]]

recover_failed_todos(tb) ==
    [i \in DOMAIN tb |->
        IF tb[i].status = "failed" /\ tb[i].repeat_rule # NoRule
        THEN [tb[i] EXCEPT !.status = "pending", !.remind_count = 0,
                           !.last_remind_at = None, !.reminded = FALSE]
        ELSE tb[i]]

recovered_count(tb) ==
    Cardinality({ i \in DOMAIN tb : tb[i].status = "failed" /\ tb[i].repeat_rule # NoRule })

\* the startup fix applied to quarantined rows as well, reopening them
_fix_reminder_status_reopens_failed(tb, at) ==
    [i \in DOMAIN tb |->
        IF /\ tb[i].status \in {"pending", "failed"}
           /\ tb[i].reminded = TRUE
           /\ tb[i].remind_at # None
           /\ tb[i].remind_at < at
        THEN [tb[i] EXCEPT !.status = "pending", !.reminded = FALSE,
                           !.remind_count = 0, !.last_remind_at = None]
        ELSE tb[i]]

\* the startup fix without its second UPDATE (rows with a repeat rule)
_fix_reminder_status_one_shot_only(tb, at) ==
    [i \in DOMAIN tb |->
        IF /\ tb[i].status = "pending"
           /\ tb[i].reminded = TRUE
           /\ tb[i].remind_at # None
           /\ tb[i].remind_at < at
           /\ tb[i].repeat_rule = NoRule
        THEN [tb[i] EXCEPT !.reminded = FALSE, !.remind_count = 0, !.last_remind_at = None]
        ELSE tb[i]]

_fix_reminder_status_on_startup(tb, at) ==
    [i \in DOMAIN tb |->
        IF /\ tb[i].status = "pending"
           /\ tb[i].reminded = TRUE
           /\ tb[i].remind_at # None
           /\ tb[i].remind_at < at
           /\ (tb[i].repeat_rule = NoRule \/ tb[i].repeat_rule # NoRule)
        THEN [tb[i] EXCEPT !.reminded = FALSE, !.remind_count = 0, !.last_remind_at = None]
        ELSE tb[i]]

\* ------------------------------------------------------------ history
\* A run of notification outcomes starts when a task is pending with
\* remind_count 0; T is the remind_at it had then.  n = -1: no run.
NoRun == [n |-> -1, T |-> None]
RunOf(t) ==
    IF t.status = "pending" /\ t.remind_count = 0
    THEN [n |-> 0, T |-> t.remind_at] ELSE NoRun

\* run after the table went from the current one to tb by anything but an outcome
RunAfter(tb) ==
    [i \in DOMAIN tb |->
        IF i \in DOMAIN todos /\ tb[i] = todos[i] THEN run[i] ELSE RunOf(tb[i])]

\* sent after the table went from the current one to tb; resets tells
\* whether the operation is one that sets remind_count back to 0
SentAfter(tb, resets) ==
    [i \in DOMAIN tb |->
        IF i \in DOMAIN todos
           /\ ~(resets /\ tb[i] # todos[i] /\ tb[i].remind_count = 0)
        THEN sent[i] ELSE 0]

Op(name, id, was) == [op |-> name, id |-> id, was |-> was]

\* an exception caught inside _run: the call that raised, the task it was
\* for (0 when for none) and its row at that moment, the clock reading of
\* the tick
Fault(call, id) ==
    [call |-> call, id |-> id, at |-> now,
     row |-> IF id \in DOMAIN todos THEN todos[id] ELSE NoRow]
\* the lookup by id and owner found no row: there is none with the id, or
\* it is another user's
NotFound(todo_id) ==
    Op("not_found", 0, IF todo_id \in DOMAIN todos THEN "foreign" ELSE "absent")

\* a user operation on the row mark_reminded has selected and not yet updated
Noted(id, name, a, b) ==
    IF pc = "mark" /\ m.id = id
    THEN IF between.k = 0
         THEN [k |-> 1, op |-> name, a |-> a, b |-> b]
         ELSE [NoBetween EXCEPT !.k = 2]
    ELSE between

\* ------------------------------------------------------------------ Init
\* the scheduler has just been started on an empty table, Monday 00:00:00
Init ==
    /\ todos = [i \in {} |-> NoRow]
    /\ next_id = 1
    /\ now = 0
    /\ pc = "idle"
    /\ due = <<>>
    /\ m = NoMark
    /\ last_recover_check = None
    /\ dispatched = <<>>
    /\ _stop = FALSE
    /\ fetched = <<>>
    /\ tried = <<>>
    /\ faults = {}
    /\ lastOp = Op("init", 0, "absent")
    /\ run = [i \in {} |-> NoRun]
    /\ between = NoBetween
    /\ ops = 0
    /\ sent = [i \in {} |-> 0]

\* ------------------------------------------------------- user operations
\* the common shape: look the row up for its owner, write it back
Write(name, user, todo_id, row, a, b) ==
    /\ ops < MaxUserOps
    /\ ops' = ops + 1
    /\ IF Found(user, todo_id)
       THEN /\ todos' = [todos EXCEPT ![todo_id] = row]
            /\ lastOp' = Op(name, todo_id, todos[todo_id].status)
            /\ run' = RunAfter(todos')
            /\ between' = IF row # todos[todo_id] THEN Noted(todo_id, name, a, b) ELSE between
            /\ sent' = SentAfter(todos', name \in {"complete_todo", "reset_failed_todo"})
            /\ UNCHANGED <<next_id, now, sched>>
       ELSE /\ lastOp' = NotFound(todo_id)
            /\ UNCHANGED <<todos, next_id, now, sched, run, between, sent>>

\* create_todo, and the REST create handler that stores the rule right after
create_todo(user, remind_at, repeat_rule) ==
    /\ ops < MaxUserOps
    /\ ops' = ops + 1
    /\ next_id <= MaxTodos
    /\ todos' = [i \in DOMAIN todos \cup {next_id} |->
                    IF i = next_id THEN Todo(user, remind_at, repeat_rule) ELSE todos[i]]
    /\ next_id' = next_id + 1
    /\ lastOp' = Op("create_todo", next_id, "absent")
    /\ run' = RunAfter(todos')
    /\ sent' = SentAfter(todos', TRUE)
    /\ UNCHANGED <<now, sched, between>>

complete_todo(user, todo_id) ==
    Write("complete_todo", user, todo_id,
          IF Found(user, todo_id) THEN complete_todo_row(todos[todo_id], now) ELSE NoRow,
          None, FALSE)

edit_todo(user, todo_id, new_time, clear_remind) ==
    Write("edit_todo", user, todo_id,
          IF Found(user, todo_id)
          THEN edit_todo_row(todos[todo_id], new_time, clear_remind) ELSE NoRow,
          new_time, clear_remind)

update_todo(user, todo_id, remind_at, repeat_rule) ==
    Write("update_todo", user, todo_id,
          IF Found(user, todo_id)
          THEN update_todo_row(todos[todo_id], remind_at, repeat_rule) ELSE NoRow,
          remind_at, FALSE)

\* TodoItemAPI.POST with a repeat_rule key: stores the rule, or NULL
TodoItemAPI_POST(user, todo_id, repeat_rule) ==
    Write("TodoItemAPI_POST", user, todo_id,
          IF Found(user, todo_id)
          THEN [todos[todo_id] EXCEPT !.repeat_rule = repeat_rule] ELSE NoRow,
          None, FALSE)

reset_failed_todo(user, todo_id) ==
    Write("reset_failed_todo", user, todo_id,
          IF Found(user, todo_id) THEN reset_failed_todo_row(todos[todo_id]) ELSE NoRow,
          None, FALSE)

delete_todo(user, todo_id) ==
    /\ ops < MaxUserOps
    /\ ops' = ops + 1
    /\ IF Found(user, todo_id)
       THEN /\ todos' = [i \in DOMAIN todos \ {todo_id} |-> todos[i]]
            /\ lastOp' = Op("delete_todo", todo_id, todos[todo_id].status)
            /\ run' = RunAfter(todos')
            /\ between' = Noted(todo_id, "delete_todo", None, FALSE)
            /\ sent' = SentAfter(todos', FALSE)
            /\ UNCHANGED <<next_id, now, sched>>
       ELSE /\ lastOp' = NotFound(todo_id)
            /\ UNCHANGED <<todos, next_id, now, sched, run, between, sent>>

\* undo_todo without the test of the status
undo_todo_of_any_status(user, todo_id) ==
    /\ ops < MaxUserOps
    /\ ops' = ops + 1
    /\ IF Found(user, todo_id)
       THEN /\ next_id <= MaxTodos
            /\ todos' = [i \in (DOMAIN todos \ {todo_id}) \cup {next_id} |->
                   IF i = next_id
                   THEN Todo(user, todos[todo_id].remind_at, todos[todo_id].repeat_rule)
                   ELSE todos[i]]
            /\ next_id' = next_id + 1
            /\ lastOp' = Op("undo_todo", next_id, todos[todo_id].status)
            /\ run' = RunAfter(todos')
            /\ between' = Noted(todo_id, "undo_todo", None, FALSE)
            /\ sent' = SentAfter(todos', TRUE)
            /\ UNCHANGED <<now, sched>>
       ELSE /\ lastOp' = NotFound(todo_id)
            /\ UNCHANGED <<todos, next_id, now, sched, run, between, sent>>

undo_todo(user, todo_id) ==
    /\ ops < MaxUserOps
    /\ ops' = ops + 1
    /\ IF Found(user, todo_id) /\ todos[todo_id].status = "done"
       THEN /\ next_id <= MaxTodos
            /\ todos' = [i \in (DOMAIN todos \ {todo_id}) \cup {next_id} |->
                   IF i = next_id
                   THEN Todo(user, todos[todo_id].remind_at, todos[todo_id].repeat_rule)
                   ELSE todos[i]]
            /\ next_id' = next_id + 1
            /\ lastOp' = Op("undo_todo", next_id, "done")
            /\ run' = RunAfter(todos')
            /\ between' = Noted(todo_id, "undo_todo", None, FALSE)
            /\ sent' = SentAfter(todos', TRUE)
            /\ UNCHANGED <<now, sched>>
       ELSE /\ lastOp' = IF Found(user, todo_id)
                           THEN Op("undo_todo", todo_id, todos[todo_id].status)
                           ELSE NotFound(todo_id)
            /\ UNCHANGED <<todos, next_id, now, sched, run, between, sent>>

\* complete_recently_reminded_todos: quarantined rows first, else the rows
\* reminded in the same second as the most recently reminded pending row
complete_recently_reminded_todos(user) ==
    /\ ops < MaxUserOps
    /\ ops' = ops + 1
    /\ LET failed == reminded_todos(todos, user, "failed")
           pending == reminded_todos(todos, user, "pending")
       IN IF failed # {}
          THEN \E P \in Pages(failed, todos) :
                 /\ todos' = [i \in DOMAIN todos |->
                                 IF i \in P THEN resolve_failed_row(todos[i], now)
                                 ELSE todos[i]]
                 /\ lastOp' = Op("complete_recently_reminded_todos", Cardinality(P), "failed")
          ELSE IF pending # {}
          THEN \E P \in Pages(pending, todos) :
                 LET same == same_time_todos(P, todos)
                 IN /\ todos' = [i \in DOMAIN todos |->
                                    IF i \in same THEN resolve_pending_row(todos[i], now)
                                    ELSE todos[i]]
                    /\ lastOp' = Op("complete_recently_reminded_todos",
                                    Cardinality(same), "pending")
          ELSE /\ lastOp' = Op("complete_recently_reminded_todos", 0, "absent")
               /\ UNCHANGED todos
    /\ run' = RunAfter(todos')
    /\ sent' = SentAfter(todos', TRUE)
    /\ between' = IF pc = "mark" /\ m.id \in DOMAIN todos /\ todos'[m.id] # todos[m.id]
                  THEN Noted(m.id, "complete_recently_reminded_todos", None, FALSE)
                  ELSE between
    /\ UNCHANGED <<next_id, now, sched>>

\* ------------------------------------------------------------- scheduler
\* the window test with the wrong hour (01:00-01:05)
InRecoverWindow_hour_one(t) ==
    /\ t % DaySeconds >= RecoverSpacingSeconds
    /\ t % DaySeconds < RecoverSpacingSeconds + RecoverWindowSeconds

InRecoverWindow(t) == t % DaySeconds < RecoverWindowSeconds

\* the recovery gate without the test of last_recover_check
RecoverDue_unspaced(t) == InRecoverWindow(t)

RecoverDue(t) ==
    /\ InRecoverWindow(t)
    /\ (last_recover_check = None \/ t - last_recover_check > RecoverSpacingSeconds)

\* ReminderScheduler.start after a restart of the process: the tick in
\* progress is lost, the table is repaired, the thread starts afresh
start ==
    /\ UNCHANGED ops
    /\ todos' = _fix_reminder_status_on_startup(todos, now)
    /\ pc' = "idle"
    /\ due' = <<>>
    /\ m' = NoMark
    /\ last_recover_check' = None
    /\ dispatched' = <<>>
    /\ _stop' = FALSE
    /\ fetched' = <<>>
    /\ tried' = <<>>
    /\ faults' = {}
    /\ lastOp' = Op("start", Cardinality({ i \in DOMAIN todos : todos'[i] # todos[i] }),
                     "absent")
    /\ run' = RunAfter(todos')
    /\ sent' = [i \in DOMAIN todos |-> 0]
    /\ between' = NoBetween
    /\ UNCHANGED <<next_id, now>>

\* an iteration that starts without the test of the event
tick_ignores_stop ==
    /\ pc = "idle"
    /\ IF RecoverDue(now)
       THEN /\ todos' = recover_failed_todos(todos)
            /\ last_recover_check' = now
            /\ lastOp' = Op("recover_failed_todos", recovered_count(todos), "absent")
       ELSE UNCHANGED <<todos, last_recover_check, lastOp>>
    /\ run' = RunAfter(todos')
    /\ sent' = SentAfter(todos', TRUE)
    /\ due' = fetch_due_reminders(todos', now)
    /\ fetched' = due'
    /\ dispatched' = <<>>
    /\ tried' = <<>>
    /\ faults' = {}
    /\ pc' = "loop"
    /\ UNCHANGED <<next_id, now, m, between, ops, _stop>>

\* top of one iteration of _run: read the clock, run the quarantine
\* recovery inside its window, read the due list
tick ==
    /\ pc = "idle"
    /\ ~_stop
    /\ IF RecoverDue(now)
       THEN /\ todos' = recover_failed_todos(todos)
            /\ last_recover_check' = now
            /\ lastOp' = Op("recover_failed_todos", recovered_count(todos), "absent")
       ELSE UNCHANGED <<todos, last_recover_check, lastOp>>
    /\ run' = RunAfter(todos')
    /\ sent' = SentAfter(todos', TRUE)
    /\ due' = fetch_due_reminders(todos', now)
    /\ fetched' = due'
    /\ dispatched' = <<>>
    /\ tried' = <<>>
    /\ faults' = {}
    /\ pc' = "loop"
    /\ UNCHANGED <<next_id, now, m, between, ops, _stop>>

\* the iteration without the try around its body: an exception of
\* fetch_due_reminders ends _run
tick_raises_ends_the_thread(call) ==
    /\ pc = "idle"
    /\ ~_stop
    /\ IF call = "recover_failed_todos"
       THEN /\ RecoverDue(now)
            /\ due' = fetch_due_reminders(todos, now)
            /\ pc' = "loop"
            /\ UNCHANGED <<todos, last_recover_check, lastOp>>
       ELSE /\ IF RecoverDue(now)
               THEN /\ todos' = recover_failed_todos(todos)
                    /\ last_recover_check' = now
                    /\ lastOp' = Op("recover_failed_todos", recovered_count(todos),
                                    "absent")
               ELSE UNCHANGED <<todos, last_recover_check, lastOp>>
            /\ due' = <<>>
            /\ pc' = "exited"
    /\ run' = RunAfter(todos')
    /\ sent' = SentAfter(todos', TRUE)
    /\ fetched' = due'
    /\ dispatched' = <<>>
    /\ tried' = <<>>
    /\ faults' = {Fault(call, 0)}
    /\ UNCHANGED <<next_id, now, m, between, ops, _stop>>

\* the same iteration when a call to the store raises: recover_failed_todos
\* inside its own try (the table and last_recover_check stay, the iteration
\* goes on), or fetch_due_reminders (the handler of the loop sleeps)
tick_raises(call) ==
    /\ pc = "idle"
    /\ ~_stop
    /\ IF call = "recover_failed_todos"
       THEN /\ RecoverDue(now)
            /\ due' = fetch_due_reminders(todos, now)
            /\ UNCHANGED <<todos, last_recover_check, lastOp>>
       ELSE /\ IF RecoverDue(now)
               THEN /\ todos' = recover_failed_todos(todos)
                    /\ last_recover_check' = now
                    /\ lastOp' = Op("recover_failed_todos", recovered_count(todos),
                                    "absent")
               ELSE UNCHANGED <<todos, last_recover_check, lastOp>>
            /\ due' = <<>>
    /\ run' = RunAfter(todos')
    /\ sent' = SentAfter(todos', TRUE)
    /\ fetched' = due'
    /\ dispatched' = <<>>
    /\ tried' = <<>>
    /\ faults' = {Fault(call, 0)}
    /\ pc' = "loop"
    /\ UNCHANGED <<next_id, now, m, between, ops, _stop>>

\* the loop over the due list with one try around the whole loop: a send
\* that raises ends the loop
dispatch_abandons_the_list(ok) ==
    /\ pc = "loop"
    /\ due # <<>>
    /\ tried' = Append(tried, [id |-> Head(due), ok |-> ok])
    /\ IF ~ok
       THEN /\ due' = <<>>
            /\ faults' = faults \cup {Fault("_send", Head(due))}
            /\ UNCHANGED <<pc, m, dispatched, sent>>
       ELSE /\ dispatched' = Append(dispatched, Head(due))
            /\ UNCHANGED faults
            /\ IF Head(due) \in DOMAIN todos
               THEN /\ m' = [id |-> Head(due), row |-> todos[Head(due)]]
                    /\ sent' = [sent EXCEPT ![Head(due)] = @ + 1]
                    /\ pc' = "mark"
                    /\ UNCHANGED due
               ELSE /\ due' = Tail(due)
                    /\ UNCHANGED <<pc, m, sent>>
    /\ UNCHANGED <<todos, next_id, now, last_recover_check, lastOp, run, between, ops,
                   _stop, fetched>>

\* one entry of the due list: the send, then the select of mark_reminded
dispatch(ok) ==
    /\ pc = "loop"
    /\ due # <<>>
    /\ tried' = Append(tried, [id |-> Head(due), ok |-> ok])
    /\ IF ~ok
       THEN /\ due' = Tail(due)
            /\ faults' = faults \cup {Fault("_send", Head(due))}
            /\ UNCHANGED <<pc, m, dispatched, sent>>
       ELSE /\ dispatched' = Append(dispatched, Head(due))
            /\ UNCHANGED faults
            /\ IF Head(due) \in DOMAIN todos
               THEN /\ m' = [id |-> Head(due), row |-> todos[Head(due)]]
                    /\ sent' = [sent EXCEPT ![Head(due)] = @ + 1]
                    /\ pc' = "mark"
                    /\ UNCHANGED due
               ELSE /\ due' = Tail(due)
                    /\ UNCHANGED <<pc, m, sent>>
    /\ UNCHANGED <<todos, next_id, now, last_recover_check, lastOp, run, between, ops,
                   _stop, fetched>>

\* the update of mark_reminded and its commit
mark_reminded ==
    /\ pc = "mark"
    /\ IF m.id \in DOMAIN todos
       THEN /\ todos' = [todos EXCEPT ![m.id] = apply_update(@, update_dict(m.row, now))]
            /\ run' = [run EXCEPT ![m.id] =
                          IF run[m.id].n >= 0 /\ between.k = 0
                          THEN [n |-> run[m.id].n + 1, T |-> run[m.id].T] ELSE NoRun]
            /\ lastOp' = Op("mark_reminded", m.id, todos[m.id].status)
       ELSE UNCHANGED <<todos, run, lastOp>>
    /\ m' = NoMark
    /\ between' = NoBetween
    /\ due' = Tail(due)
    /\ pc' = "loop"
    /\ UNCHANGED <<next_id, now, last_recover_check, dispatched, ops, sent,
                   _stop, fetched, tried, faults>>

\* mark_reminded when the store raises: the session is closed without a
\* commit, the handler of the entry logs and the loop takes the next entry
mark_reminded_raises ==
    /\ pc = "mark"
    /\ run' = [i \in DOMAIN run |-> IF i = m.id THEN NoRun ELSE run[i]]
    /\ faults' = faults \cup {Fault("mark_reminded", m.id)}
    /\ m' = NoMark
    /\ between' = NoBetween
    /\ due' = Tail(due)
    /\ pc' = "loop"
    /\ UNCHANGED <<todos, next_id, now, last_recover_check, dispatched, ops, sent,
                   lastOp, _stop, fetched, tried>>

\* end of the iteration: time.sleep(60) returns at least 60 seconds later
sleep ==
    /\ pc = "loop"
    /\ due = <<>>
    /\ \E t \in Instants : t >= now + TickSeconds /\ now' = t
    /\ pc' = "idle"
    /\ dispatched' = <<>>
    /\ fetched' = <<>>
    /\ tried' = <<>>
    /\ UNCHANGED <<todos, next_id, due, m, last_recover_check, lastOp, run, between,
                   ops, sent, _stop, faults>>

\* time passes while the thread is not inside a tick (a tick runs within
\* one instant of the sampled clock)
Advance ==
    /\ pc = "idle"
    /\ \E t \in Instants : t > now /\ now' = t
    /\ UNCHANGED <<todos, next_id, sched, lastOp, run, between, ops, sent>>

Times == RemindInputs \cup {None}
Rules == RuleInputs \cup {NoRule}

\* the operations users call
UserNext ==
    \/ \E u \in Owners, t \in Times, r \in Rules : create_todo(u, t, r)
    \/ \E u \in Users, i \in Ids : complete_todo(u, i)
    \/ \E u \in Users, i \in Ids, t \in Times, c \in BOOLEAN : edit_todo(u, i, t, c)
    \/ \E u \in Users, i \in Ids, t \in Times, r \in Rules : update_todo(u, i, t, r)
    \/ \E u \in Users, i \in Ids, r \in Rules : TodoItemAPI_POST(u, i, r)
    \/ \E u \in Users, i \in Ids : reset_failed_todo(u, i)
    \/ \E u \in Users, i \in Ids : delete_todo(u, i)
    \/ \E u \in Users, i \in Ids : undo_todo(u, i)
    \/ \E u \in Users : complete_recently_reminded_todos(u)

Next ==
    \/ UserNext
    \/ start
    \/ tick
    \/ dispatch(TRUE)
    \/ mark_reminded
    \/ sleep
    \/ Advance

Spec == Init /\ [][Next]_vars

\* ------------------------------------------- the loop that keeps ticking
\* time.sleep(60) when the thread is scheduled on time: the next tick is at
\* the next instant at which the clock is observed
sleep_on_time ==
    /\ pc = "loop"
    /\ due = <<>>
    /\ \E t \in Instants :
          /\ t >= now + TickSeconds
          /\ \A x \in Instants : x >= now + TickSeconds => t <= x
          /\ now' = t
    /\ pc' = "idle"
    /\ dispatched' = <<>>
    /\ fetched' = <<>>
    /\ tried' = <<>>
    /\ UNCHANGED <<todos, next_id, due, m, last_recover_check, lastOp, run, between,
                   ops, sent, _stop, faults>>

\* one run of the scheduler thread, never stopped, no statement raising;
\* users create tasks and then leave them alone
LiveNext ==
    \/ \E u \in Owners, t \in Times, r \in Rules : create_todo(u, t, r)
    \/ tick
    \/ dispatch(TRUE)
    \/ mark_reminded
    \/ sleep_on_time

LiveSpec ==
    /\ Init
    /\ [][LiveNext]_vars
    /\ WF_vars(tick)
    /\ WF_vars(dispatch(TRUE))
    /\ WF_vars(mark_reminded)
    /\ WF_vars(sleep_on_time)

\* one run of the scheduler thread, scheduled on time, beside the users
CallNext ==
    \/ UserNext
    \/ tick
    \/ dispatch(TRUE)
    \/ mark_reminded
    \/ sleep_on_time

CallSpec == Init /\ [][CallNext]_vars

\* ------------------------------------- the calculator over the calendar
\* every day of the years EpochYear .. EpochYear + MaxYears - 1, at
\* 09:00:00 and at the last clock reading of the day
CalcClock == {9 * 3600 * Hz, DaySeconds - 1}

CalcDates ==
    { c \in (EpochYear..(EpochYear + MaxYears - 1)) \X (1..12) \X (1..31) :
        c[3] <= monthrange(c[1], c[2]) }

CalcTimes == { DateTime(c[1], c[2], c[3], s) : c \in CalcDates, s \in CalcClock }

\* the scheduler has just been started at the remind_at of the one task of
\* the table
CalcInit ==
    /\ \E t \in CalcTimes, r \in KnownRules \cup RuleInputs :
          /\ todos = <<Todo("u1", t, r)>>
          /\ now = t
    /\ next_id = 2
    /\ pc = "idle"
    /\ due = <<>>
    /\ m = NoMark
    /\ last_recover_check = None
    /\ dispatched = <<>>
    /\ _stop = FALSE
    /\ fetched = <<>>
    /\ tried = <<>>
    /\ faults = {}
    /\ lastOp = Op("init", 0, "absent")
    /\ run = [i \in DOMAIN todos |-> NoRun]
    /\ between = NoBetween
    /\ ops = 0
    /\ sent = [i \in DOMAIN todos |-> 0]

\* the first tick: the task is sent and mark_reminded computes its next time
CalcNext ==
    \/ tick
    \/ dispatch(TRUE)
    \/ mark_reminded

CalcSpec == CalcInit /\ [][CalcNext]_vars

\* ---------------------------------------- remind times around a tick
\* the remind times users give: one second and one clock reading before the
\* second tick, the instant of that tick, one reading after it
DueInputs == {TickSeconds - Hz, TickSeconds - 1, TickSeconds, TickSeconds + 1}

\* one run of the scheduler thread, scheduled on time, beside users who
\* create tasks
DueNext ==
    \/ \E u \in Owners, t \in DueInputs, r \in Rules : create_todo(u, t, r)
    \/ tick
    \/ dispatch(TRUE)
    \/ mark_reminded
    \/ sleep_on_time

DueSpec == Init /\ [][DueNext]_vars

\* ------------------------------------- the loop under faults and stop()
\* ReminderScheduler.stop: sets the event (the join waits at most 2 seconds
\* and changes nothing)
stop ==
    /\ ~_stop
    /\ _stop' = TRUE
    /\ UNCHANGED <<todos, next_id, now, pc, due, m, last_recover_check, dispatched,
                   fetched, tried, faults, lastOp, run, between, ops, sent>>

\* while not self._stop.is_set() is false: _run returns
exit ==
    /\ pc = "idle"
    /\ _stop
    /\ pc' = "exited"
    /\ UNCHANGED <<todos, next_id, now, due, m, last_recover_check, dispatched,
                   _stop, fetched, tried, faults, lastOp, run, between, ops, sent>>

\* one run of the thread whose sends may raise, beside users who create
\* and edit tasks
SendNext ==
    \/ \E u \in Owners, t \in RemindInputs, r \in Rules : create_todo(u, t, r)
    \/ \E u \in Owners, i \in Ids, t \in Times, c \in BOOLEAN : edit_todo(u, i, t, c)
    \/ tick
    \/ \E ok \in BOOLEAN : dispatch(ok)
    \/ mark_reminded
    \/ sleep_on_time

SendSpec == Init /\ [][SendNext]_vars

StoreCalls == {"recover_failed_todos", "fetch_due_reminders"}

\* the steps of the scheduler thread, each call that can raise raising or not
ThreadNext ==
    \/ tick
    \/ \E call \in StoreCalls : tick_raises(call)
    \/ \E ok \in BOOLEAN : dispatch(ok)
    \/ mark_reminded
    \/ mark_reminded_raises
    \/ sleep_on_time
    \/ exit

\* the scheduler has just been started on a table with one fresh task
FaultTables == { <<Todo("u1", 0, r)>> : r \in {NoRule, "daily"} }

FaultInit ==
    /\ todos \in FaultTables
    /\ next_id = Len(todos) + 1
    /\ now = 0
    /\ pc = "idle"
    /\ due = <<>>
    /\ m = NoMark
    /\ last_recover_check = None
    /\ dispatched = <<>>
    /\ _stop = FALSE
    /\ fetched = <<>>
    /\ tried = <<>>
    /\ faults = {}
    /\ lastOp = Op("init", 0, "absent")
    /\ run = [i \in DOMAIN todos |-> NoRun]
    /\ between = NoBetween
    /\ ops = 0
    /\ sent = [i \in DOMAIN todos |-> 0]

\* one run of the thread beside a user who deletes tasks and a caller of
\* stop()
FaultNext ==
    \/ \E u \in Owners, i \in Ids : delete_todo(u, i)
    \/ stop
    \/ ThreadNext

\* the thread is scheduled as long as it has a step to take
FaultSpec == FaultInit /\ [][FaultNext]_vars /\ WF_vars(ThreadNext)

\* --------------------------------------- the resolver on a notified table
\* Tables a cycle of ticks leaves behind: a cohort of the owner's pending
\* tasks notified within one second (the readings of second 10), and a few
\* other rows.
AckSecond == 10 * Hz
CohortSizes == {1, 2, PageLimit, PageLimit + 1}

Notified(user_id, status, last, repeat_rule, count) ==
    [Todo(user_id, 0, repeat_rule) EXCEPT
        !.status = status, !.last_remind_at = last, !.remind_count = count,
        !.reminded = (repeat_rule = NoRule),
        !.completed_at = IF status = "done" THEN AckSecond ELSE None]

CohortRow(i) ==
    Notified("u1", "pending", AckSecond + (i % Hz),
             IF i % 3 = 0 THEN "daily" ELSE NoRule, 1)

\* the same tasks after their third notification
FailedCohortRow(i) ==
    Notified("u1", "failed", AckSecond + (i % Hz),
             IF i % 3 = 0 THEN "daily" ELSE NoRule, MaxReminds)

ExtraRows ==
    << Notified("u1", "pending", AckSecond - 1, NoRule, 1),
      Notified("u1", "pending", AckSecond - Hz, "daily", 2),
      Todo("u1", None, NoRule),
      Notified("u2", "pending", AckSecond + 1, NoRule, 1),
      Notified("u1", "done", AckSecond, NoRule, 1),
      Notified("u1", "failed", AckSecond - Hz, NoRule, 3),
      Notified("u1", "failed", AckSecond - 1, "daily", 3),
      [Notified("u1", "failed", AckSecond - 1, "cron", 3) EXCEPT !.reminded = TRUE],
      Todo("u2", None, NoRule) >>

AckTables ==
    { [i \in 1..(c + Len(ex)) |->
          IF i > c THEN ExtraRows[ex[i - c]]
          ELSE IF quarantined THEN FailedCohortRow(i) ELSE CohortRow(i)] :
        c \in CohortSizes, quarantined \in BOOLEAN,
        ex \in { SortedSeq(S) : S \in { T \in SUBSET DOMAIN ExtraRows :
                                          Cardinality(T) <= MaxExtras } } }

AckInit ==
    /\ todos \in AckTables
    /\ next_id = Len(todos) + 1
    /\ now = TickSeconds
    /\ pc = "idle"
    /\ due = <<>>
    /\ m = NoMark
    /\ last_recover_check = None
    /\ dispatched = <<>>
    /\ _stop = FALSE
    /\ fetched = <<>>
    /\ tried = <<>>
    /\ faults = {}
    /\ lastOp = Op("init", 0, "absent")
    /\ run = [i \in DOMAIN todos |-> NoRun]
    /\ between = NoBetween
    /\ ops = 0
    /\ sent = [i \in DOMAIN todos |-> 0]

AckNext == \E u \in Users : complete_recently_reminded_todos(u)

AckSpec == AckInit /\ [][AckNext]_vars

\* ================================================================ claims
Live == DOMAIN todos
DueNow == Range(fetch_due_reminders(todos, now))

\* the row a user operation noted in `between` makes of row t
ApplyUser(b, t) ==
    IF b.op = "complete_todo" THEN complete_todo_row(t, now)
    ELSE IF b.op = "edit_todo" THEN edit_todo_row(t, b.a, b.b)
    ELSE IF b.op = "reset_failed_todo" THEN reset_failed_todo_row(t)
    ELSE t

\* C1: a daily task with remind_at = T that starts pending with
\* remind_count 0 is, after three notification outcomes in a row, failed
\* with reminded = FALSE and remind_at = T + 1 day; the next quarantine
\* recovery sets it back to pending with remind_count 0.
C1_AfterThree ==
    \A i \in Live :
        (todos[i].repeat_rule = "daily" /\ run[i].n = 3 /\ run[i].T # None)
        => /\ todos[i].status = "failed"
           /\ todos[i].reminded = FALSE
           /\ todos[i].remind_at = run[i].T + DaySeconds

C1_Recovered ==
    (tick /\ RecoverDue(now))
    => \A i \in Live :
          (todos[i].repeat_rule = "daily" /\ run[i].n = 3 /\ todos[i].status = "failed")
          => todos'[i].status = "pending" /\ todos'[i].remind_count = 0

C1_DailyThreeOutcomes == []C1_AfterThree /\ [][C1_Recovered]_vars

\* C2: a one-shot task that starts pending with remind_count 0 is, after
\* three notification outcomes in a row, failed with remind_count 3; the
\* due-set query returns it in neither class, at whatever time the query
\* runs, and no step other than a user operation changes its row.
C2_Quarantined ==
    \A i \in Live :
        (todos[i].repeat_rule = NoRule /\ run[i].n >= 3)
        => /\ todos[i].status = "failed"
           /\ todos[i].remind_count = 3
           /\ i \notin DueNow

C2_Stays ==
    \A i \in Live :
        (todos[i].repeat_rule = NoRule /\ run[i].n >= 3 /\ ops' = ops)
        => i \in DOMAIN todos' /\ todos'[i] = todos[i]

C2_OneShotQuarantined == []C2_Quarantined /\ [][C2_Stays]_vars

\* a quarantined one-shot task at a time when both time conditions of the
\* query hold for it
C2_Witness ==
    \E i \in Live :
        /\ todos[i].repeat_rule = NoRule
        /\ run[i].n = 3
        /\ todos[i].remind_at # None /\ todos[i].remind_at <= now
        /\ todos[i].last_remind_at # None
        /\ todos[i].last_remind_at <= now - RetrySeconds

\* C3: within one tick no task id is dispatched more than once.
C3_NoDoubleDispatch ==
    \A a, b \in DOMAIN dispatched : a # b => dispatched[a] # dispatched[b]

\* C4: a task without remind_at is never returned by the due-set query.
C4_NoRemindAtNeverDue ==
    \A i \in DueNow : todos[i].remind_at # None

\* C5: every task with reminded = TRUE has last_remind_at set.
C5_RemindedHasTimestamp ==
    \A i \in Live : todos[i].reminded = TRUE => todos[i].last_remind_at # None

\* C6: right after an operation that begins a new occurrence (mark_reminded
\* replacing remind_at by the next occurrence) or reopens a task
\* (reset_failed_todo, undo_todo, complete_todo on a repeating task,
\* recover_failed_todos) the task has remind_count 0.
C6_Step ==
    /\ (mark_reminded /\ m.id \in Live /\ todos'[m.id].remind_at # todos[m.id].remind_at)
       => todos'[m.id].remind_count = 0
    /\ \A u \in Users, i \in Live :
        /\ (reset_failed_todo(u, i) /\ Found(u, i) /\ todos[i].status = "failed")
           => todos'[i].remind_count = 0
        /\ (complete_todo(u, i) /\ Found(u, i) /\ todos[i].repeat_rule # NoRule
                /\ todos[i].status # "done")
           => todos'[i].remind_count = 0
        /\ (undo_todo(u, i) /\ Found(u, i) /\ todos[i].status = "done")
           => todos'[next_id].remind_count = 0
    /\ (tick /\ RecoverDue(now))
       => \A i \in Live :
            (todos[i].status = "failed" /\ todos[i].repeat_rule # NoRule)
            => todos'[i].remind_count = 0

C6_CountZeroOnNewOccurrence == [][C6_Step]_vars

\* C7: a task a user completed (status done) before the scheduler calls
\* mark_reminded for it still has status done after that call.
C7_Step ==
    (mark_reminded /\ between.k = 0)
    => \A i \in Live : todos[i].status = "done" => todos'[i].status = "done"

C7_DoneStaysDone == [][C7_Step]_vars

\* C8: when complete_todo, edit_todo or reset_failed_todo runs between the
\* select and the update of mark_reminded, the row ends as one of the two
\* serial orders of the two operations leaves it.
C8_Step ==
    (/\ mark_reminded
     /\ m.id \in Live
     /\ between.k = 1
     /\ between.op \in {"complete_todo", "edit_todo", "reset_failed_todo"})
    => todos'[m.id] \in { ApplyUser(between, mark_reminded_row(m.row, now)),
                          mark_reminded_row(ApplyUser(between, m.row), now) }

C8_NoLostUpdate == [][C8_Step]_vars

\* C9: complete_todo on a repeating task that is pending or failed leaves
\* it pending with remind_count 0 and last_remind_at NULL, and does not
\* touch completed_at.
C9_Step ==
    \A u \in Users, i \in Live :
        (/\ complete_todo(u, i)
         /\ Found(u, i)
         /\ todos[i].repeat_rule # NoRule
         /\ todos[i].status \in {"pending", "failed"})
        => /\ todos'[i].status = "pending"
           /\ todos'[i].remind_count = 0
           /\ todos'[i].last_remind_at = None
           /\ todos'[i].completed_at = todos[i].completed_at

C9_CompleteRepeating == [][C9_Step]_vars

\* a quarantined repeating task that complete_todo has just reopened
C9_Witness ==
    /\ lastOp.op = "complete_todo"
    /\ lastOp.was = "failed"
    /\ lastOp.id \in Live
    /\ todos[lastOp.id].repeat_rule # NoRule
    /\ todos[lastOp.id].status = "pending"
    /\ todos[lastOp.id].remind_count = 0

\* C10: complete_todo on a repeating task re-arms it: afterwards reminded
\* is FALSE, so a task whose remind_at has come is in the first-due class.
C10_Step ==
    \A u \in Users, i \in Live :
        (/\ complete_todo(u, i)
         /\ Found(u, i)
         /\ todos[i].repeat_rule # NoRule
         /\ todos[i].status # "done")
        => /\ todos'[i].reminded = FALSE
           /\ (todos'[i].remind_at # None /\ todos'[i].remind_at <= now)
              => i \in Range(initial_reminds(todos', now))

C10_CompleteRearms == [][C10_Step]_vars

\* C11: whenever a notification has been sent for a task, the time of the
\* tick is not earlier than the remind_at the task has at that moment.
C11_NotBeforeRemindAt ==
    pc = "mark" => (m.row.remind_at # None => m.row.remind_at <= now)

\* C12: the startup fix sets reminded = FALSE, remind_count = 0 and
\* last_remind_at = NULL on every pending task with reminded = TRUE and
\* remind_at set and earlier than now, with or without a repeat rule; it
\* changes nothing else, and applied a second time it changes no task.
C12_Stale(t) ==
    /\ t.status = "pending"
    /\ t.reminded = TRUE
    /\ t.remind_at # None
    /\ t.remind_at < now

C12_Step ==
    start =>
        /\ DOMAIN todos' = DOMAIN todos
        /\ \A i \in Live :
              IF C12_Stale(todos[i])
              THEN /\ todos'[i].reminded = FALSE
                   /\ todos'[i].remind_count = 0
                   /\ todos'[i].last_remind_at = None
                   /\ todos'[i].status = todos[i].status
                   /\ todos'[i].remind_at = todos[i].remind_at
                   /\ todos'[i].repeat_rule = todos[i].repeat_rule
                   /\ todos'[i].user_id = todos[i].user_id
                   /\ todos'[i].completed_at = todos[i].completed_at
              ELSE todos'[i] = todos[i]
        /\ _fix_reminder_status_on_startup(todos', now) = todos'

C12_StartupFix == [][C12_Step]_vars

\* the startup fix has just repaired a task that carries a repeat rule
C12_Witness ==
    /\ lastOp.op = "start"
    /\ lastOp.id >= 1
    /\ \E i \in Live : /\ todos[i].repeat_rule # NoRule
                        /\ todos[i].status = "pending"
                        /\ todos[i].reminded = FALSE
                        /\ todos[i].remind_count = 0
                        /\ todos[i].last_remind_at = None
                        /\ todos[i].remind_at # None /\ todos[i].remind_at < now

\* C13: recover_failed_todos sets every failed task with a repeat rule to
\* pending, remind_count 0, last_remind_at NULL, reminded FALSE and returns
\* how many it reset; it leaves remind_at and the other columns of these
\* tasks, and every other task, unchanged.
C13_Step ==
    (tick /\ RecoverDue(now)) =>
        /\ DOMAIN todos' = DOMAIN todos
        /\ \A i \in Live :
              IF todos[i].status = "failed" /\ todos[i].repeat_rule # NoRule
              THEN /\ todos'[i].status = "pending"
                   /\ todos'[i].remind_count = 0
                   /\ todos'[i].last_remind_at = None
                   /\ todos'[i].reminded = FALSE
                   /\ todos'[i].remind_at = todos[i].remind_at
                   /\ todos'[i].repeat_rule = todos[i].repeat_rule
                   /\ todos'[i].user_id = todos[i].user_id
                   /\ todos'[i].completed_at = todos[i].completed_at
              ELSE todos'[i] = todos[i]
        /\ lastOp'.op = "recover_failed_todos"
        /\ lastOp'.id = Cardinality({ i \in Live : todos[i].status = "failed"
                                                     /\ todos[i].repeat_rule # NoRule })

C13_RecoverFailed == [][C13_Step]_vars

\* a recovery has just reset a repeating task while a quarantined one-shot
\* task was in the table
C13_Witness ==
    /\ lastOp.op = "recover_failed_todos"
    /\ lastOp.id >= 1
    /\ pc = "loop"
    /\ \E i \in Live : todos[i].repeat_rule = NoRule /\ todos[i].status = "failed"

\* C14: within one run of the scheduler loop a quarantine recovery
\* completes only at a tick whose local time is in 00:00-00:05, more than
\* one hour after the previous one and never twice on one calendar day; a
\* tick changes the table only through a recovery.
C14_Step ==
    /\ (tick /\ last_recover_check' # last_recover_check) =>
          /\ now % (86400 * Hz) < 5 * 60 * Hz
          /\ last_recover_check # None =>
                /\ now - last_recover_check > 3600 * Hz
                /\ now \div (86400 * Hz) # last_recover_check \div (86400 * Hz)
    /\ (tick /\ todos' # todos) => last_recover_check' = now /\ last_recover_check # now

C14_RecoverOncePerDay == [][C14_Step]_vars

\* a tick inside the window, on the day of an earlier recovery of this run,
\* has passed without running the recovery again
C14_Witness ==
    /\ pc = "loop"
    /\ last_recover_check # None
    /\ last_recover_check < now
    /\ now % (86400 * Hz) < 5 * 60 * Hz
    /\ now \div (86400 * Hz) = last_recover_check \div (86400 * Hz)

\* C15: while the loop keeps ticking, a failed task with a repeat rule is
\* pending again without any user operation: the first tick of the next
\* day's window (the tick of 00:00) sets every such task to pending.  The
\* clock of the model stops on day MaxDay, so the tasks that fail on that
\* day are left out of the first half.
C15_Quarantined(i) ==
    /\ i \in Live
    /\ todos[i].status = "failed"
    /\ todos[i].repeat_rule # NoRule

C15_Eventually ==
    \A i \in Ids :
        (C15_Quarantined(i) /\ now < MaxDay * DaySeconds) ~> ~C15_Quarantined(i)

C15_Step ==
    (tick /\ now % (86400 * Hz) = 0)
    => \A i \in Ids : C15_Quarantined(i) => todos'[i].status = "pending"

C15_RecurringReturns == C15_Eventually /\ [][C15_Step]_vars

\* on a later day the tick of 00:00 has just released a quarantined task
C15_Witness ==
    /\ now >= 86400 * Hz
    /\ pc = "loop"
    /\ lastOp.op = "recover_failed_todos"
    /\ lastOp.id >= 1
    /\ \E i \in Live : /\ todos[i].repeat_rule # NoRule
                        /\ todos[i].status = "pending"
                        /\ todos[i].remind_count = 0

\* C16: a failed task without a repeat rule stays failed in every step of
\* the scheduler (tick with or without recovery, dispatch, mark_reminded,
\* restart with the startup fix); it leaves failed only in a step of
\* reset_failed_todo, complete_todo or complete_recently_reminded_todos;
\* and no step of the scheduler turns a task that is not done into done.
C16_Step ==
    /\ \A i \in Live :
          (/\ todos[i].status = "failed"
           /\ todos[i].repeat_rule = NoRule
           /\ i \in DOMAIN todos'
           /\ todos'[i].status # "failed")
          => /\ ops' = ops + 1
             /\ lastOp'.op \in {"reset_failed_todo", "complete_todo",
                                "complete_recently_reminded_todos"}
    /\ ops' = ops =>
          \A i \in Live :
              (i \in DOMAIN todos' /\ todos'[i].status = "done") => todos[i].status = "done"

C16_OneShotStaysFailed == [][C16_Step]_vars

\* a restart has run the startup fix over a quarantined one-shot task whose
\* reminder is overdue, and the task is still failed
C16_Witness ==
    /\ lastOp.op = "start"
    /\ \E i \in Live : /\ todos[i].repeat_rule = NoRule
                        /\ todos[i].status = "failed"
                        /\ todos[i].reminded = TRUE
                        /\ todos[i].remind_at # None /\ todos[i].remind_at < now

\* C17: when mark_reminded brings a task with a repeat rule to the
\* threshold it sets the task to failed, and it never sets a task to done;
\* a failed task with a repeat rule becomes pending only in a step of the
\* operations named by ReturnOps.
C17_Exhaustion ==
    (mark_reminded /\ m.id \in Live) =>
        /\ (m.row.repeat_rule # NoRule /\ m.row.remind_count + 1 >= 3)
           => todos'[m.id].status = "failed"
        /\ todos[m.id].status # "done" => todos'[m.id].status # "done"

C17_Returns(ReturnOps) ==
    \A i \in Live :
        (/\ todos[i].status = "failed"
         /\ todos[i].repeat_rule # NoRule
         /\ i \in DOMAIN todos'
         /\ todos'[i].status = "pending")
        => lastOp'.op \in ReturnOps

\* as claimed: quarantine recovery or an acknowledgement only
C17_OnlyRecoveryOrAck ==
    [][C17_Exhaustion /\ C17_Returns({"recover_failed_todos", "complete_todo",
                                      "complete_recently_reminded_todos"})]_vars

\* C17 as amended: quarantine recovery, an acknowledgement, or the explicit
\* reset of reset_failed_todo
C17_RecoveryAckOrReset ==
    [][C17_Exhaustion /\ C17_Returns({"recover_failed_todos", "complete_todo",
                                      "complete_recently_reminded_todos",
                                      "reset_failed_todo"})]_vars

\* mark_reminded has just quarantined a task that carries a repeat rule
C17_Witness ==
    /\ lastOp.op = "mark_reminded"
    /\ lastOp.was = "pending"
    /\ lastOp.id \in Live
    /\ todos[lastOp.id].repeat_rule # NoRule
    /\ todos[lastOp.id].status = "failed"

\* C18: mark_reminded applied at time now to a task t (no other write to t
\* between its select and its update) gives remind_count = t.remind_count
\* + 1, last_remind_at = now, status = failed if t.remind_count + 1 >= 3
\* and t.status otherwise; if t has a repeat rule and a remind_at and the
\* rule yields a next occurrence, remind_at is that occurrence and
\* reminded is FALSE, otherwise remind_at is unchanged and reminded is
\* TRUE; no other column and no other task changes.
C18_Step ==
    (mark_reminded /\ m.id \in Live /\ m.row = todos[m.id]) =>
        LET t == todos[m.id]
            u == todos'[m.id]
            next == _calculate_next_remind_time(t.remind_at, t.repeat_rule)
        IN /\ u.remind_count = t.remind_count + 1
           /\ u.last_remind_at = now
           /\ u.status = IF t.remind_count + 1 >= 3 THEN "failed" ELSE t.status
           /\ IF t.repeat_rule # NoRule /\ t.remind_at # None /\ next # None
              THEN u.remind_at = next /\ u.reminded = FALSE
              ELSE u.remind_at = t.remind_at /\ u.reminded = TRUE
           /\ u.user_id = t.user_id
           /\ u.repeat_rule = t.repeat_rule
           /\ u.completed_at = t.completed_at
           /\ DOMAIN todos' = DOMAIN todos
           /\ \A i \in Live \ {m.id} : todos'[i] = todos[i]

C18_MarkReminded == [][C18_Step]_vars

\* mark_reminded has just moved a daily task to its next occurrence while
\* another task was in the table
C18_Witness ==
    /\ lastOp.op = "mark_reminded"
    /\ lastOp.id \in Live
    /\ todos[lastOp.id].repeat_rule = "daily"
    /\ todos[lastOp.id].reminded = FALSE
    /\ todos[lastOp.id].last_remind_at = now
    /\ todos[lastOp.id].remind_at # None /\ todos[lastOp.id].remind_at > now
    /\ Cardinality(Live) >= 2

\* C19: between two events that reset the remind_count of a task, the
\* scheduler sends at most 3 notifications for the task.
C19_AtMostThreeSent ==
    \A i \in Live : sent[i] <= 3

\* C20: when the owner has no failed task with last_remind_at set, one call
\* of complete_recently_reminded_todos resolves exactly the owner's pending
\* tasks whose last_remind_at, cut to the second, is the second of the most
\* recent last_remind_at among the owner's pending tasks (a task without a
\* rule becomes done, a task with a rule gets remind_count 0 and
\* last_remind_at NULL), and changes no other task.
C20_Pending(u) ==
    { i \in Live : /\ todos[i].user_id = u
                   /\ todos[i].status = "pending"
                   /\ todos[i].last_remind_at # None }

C20_Cohort(u) ==
    { i \in C20_Pending(u) :
        \A k \in C20_Pending(u) :
            todos[i].last_remind_at \div Hz >= todos[k].last_remind_at \div Hz }

C20_Step ==
    \A u \in Users :
        (/\ complete_recently_reminded_todos(u)
         /\ ~\E i \in Live : /\ todos[i].user_id = u
                              /\ todos[i].status = "failed"
                              /\ todos[i].last_remind_at # None)
        => LET cohort == C20_Cohort(u)
           IN \A i \in Live :
              IF i \in cohort
              THEN IF todos[i].repeat_rule = NoRule
                   THEN todos'[i].status = "done"
                   ELSE /\ todos'[i].status = "pending"
                        /\ todos'[i].remind_count = 0
                        /\ todos'[i].last_remind_at = None
              ELSE todos'[i] = todos[i]

C20_ResolvesLatestSecond == [][C20_Step]_vars

\* C21: when the owner has a failed task with last_remind_at set, one call
\* of complete_recently_reminded_todos resolves every such task, the 50 most
\* recently reminded when there are more (a task with a rule becomes pending
\* with remind_count 0, last_remind_at NULL and reminded FALSE, a task
\* without a rule becomes done with completed_at set), and changes neither
\* the owner's other tasks nor any task of another owner.
C21_Failed(u) ==
    { i \in Live : /\ todos[i].user_id = u
                   /\ todos[i].status = "failed"
                   /\ todos[i].last_remind_at # None }

C21_Step ==
    \A u \in Users :
        (complete_recently_reminded_todos(u) /\ C21_Failed(u) # {})
        => LET failed == C21_Failed(u)
               resolved == { i \in failed : todos'[i] # todos[i] }
           IN /\ DOMAIN todos' = DOMAIN todos
              /\ Cardinality(resolved) = Min(Cardinality(failed), PageLimit)
              /\ \A i \in resolved, k \in failed \ resolved :
                    todos[k].last_remind_at <= todos[i].last_remind_at
              /\ \A i \in resolved :
                    IF todos[i].repeat_rule # NoRule
                    THEN todos'[i] = [todos[i] EXCEPT !.status = "pending",
                                         !.remind_count = 0, !.last_remind_at = None,
                                         !.reminded = FALSE]
                    ELSE /\ todos'[i].completed_at # None
                         /\ todos'[i] = [todos[i] EXCEPT !.status = "done",
                                            !.completed_at = todos'[i].completed_at]
              /\ \A i \in Live \ failed : todos'[i] = todos[i]

C21_ResolvesQuarantined == [][C21_Step]_vars

\* more than 50 quarantined tasks of the owner, a pending notified task of
\* the owner and a task of another owner were in the table, and the call
\* resolved 50 quarantined tasks, with and without a rule
C21_Witness ==
    /\ lastOp = Op("complete_recently_reminded_todos", PageLimit, "failed")
    /\ ops = 1
    /\ \E i \in Live : todos[i].user_id = "u1" /\ todos[i].status = "failed"
                       /\ todos[i].last_remind_at # None
    /\ \E i \in Live : todos[i].user_id = "u1" /\ todos[i].status = "done"
                       /\ todos[i].remind_count = MaxReminds
    /\ \E i \in Live : /\ todos[i].user_id = "u1" /\ todos[i].status = "pending"
                       /\ todos[i].remind_count = 0 /\ todos[i].repeat_rule # NoRule
    /\ \E i \in Live : /\ todos[i].user_id = "u1" /\ todos[i].status = "pending"
                       /\ todos[i].remind_count > 0 /\ todos[i].last_remind_at # None
    /\ \E i \in Live : todos[i].user_id = "u2" /\ todos[i].last_remind_at # None

\* C22: when the user has neither a failed nor a pending task with
\* last_remind_at set, complete_recently_reminded_todos returns its failure
\* result and changes no task, whatever never reminded or closed tasks the
\* user has.
C22_Step ==
    \A u \in Users :
        (/\ complete_recently_reminded_todos(u)
         /\ ~\E i \in Live : /\ todos[i].user_id = u
                              /\ todos[i].status \in {"failed", "pending"}
                              /\ todos[i].last_remind_at # None)
        => /\ todos' = todos
           /\ lastOp' = Op("complete_recently_reminded_todos", 0, "absent")

C22_NothingToResolve == [][C22_Step]_vars

\* the call found nothing although every user has a pending task that was
\* never reminded and the table holds a closed task that was reminded
C22_Witness ==
    /\ lastOp = Op("complete_recently_reminded_todos", 0, "absent")
    /\ \A u \in Users : \E i \in Live : /\ todos[i].user_id = u
                                        /\ todos[i].status = "pending"
                                        /\ todos[i].last_remind_at = None
                                        /\ todos[i].remind_count = 0
                                        /\ todos[i].remind_at = None
    /\ \E i \in Live : todos[i].status = "done" /\ todos[i].last_remind_at # None

\* C23: when the send for one entry of a tick's due list raises, every other
\* entry of that list is still sent, and passed to mark_reminded when its
\* send returns, in the same tick and in the order of the list.
C23_Ids(s) == [k \in DOMAIN s |-> s[k].id]
C23_Sent(e) == e.ok

C23_EveryEntryTried ==
    pc \in {"loop", "mark"}
    => /\ C23_Ids(tried) \o (IF pc = "mark" THEN Tail(due) ELSE due) = fetched
       /\ dispatched = C23_Ids(SelectSeq(tried, C23_Sent))
       /\ pc = "mark" => /\ tried # <<>>
                         /\ tried[Len(tried)] = [id |-> m.id, ok |-> TRUE]

\* the end of a tick whose first send raised: the entry after it was sent
\* and marked
C23_Witness ==
    /\ pc = "loop"
    /\ due = <<>>
    /\ Len(fetched) >= 2
    /\ C23_Ids(tried) = fetched
    /\ ~tried[1].ok
    /\ tried[2].ok
    /\ tried[1].id # tried[2].id
    /\ lastOp = Op("mark_reminded", tried[Len(tried)].id, "pending")
    /\ todos[tried[2].id].last_remind_at = now

\* C24: when the send for a task raises, the row of the task is not written,
\* the send for the task is not tried again in the same tick, and the due
\* list of the next tick holds the task again when its row is still what it
\* was (a row the due-set query returns, not one a user has edited since the
\* list was read).
C24_Unsent ==
    { f \in faults : /\ f.call = "_send"
                     /\ f.id \in Range(fetch_due_reminders(f.id :> f.row, f.at)) }

C24_NotTriedAgain ==
    \A j, k \in DOMAIN tried :
        (j < k /\ ~tried[j].ok) => tried[k].id # tried[j].id

C24_Step ==
    /\ (tried' # tried /\ tried' # <<>> /\ ~tried'[Len(tried')].ok) => todos' = todos
    /\ (pc = "idle" /\ pc' = "loop")
       => \A f \in C24_Unsent :
             (f.id \in DOMAIN todos' /\ todos'[f.id] = f.row) => f.id \in Range(due')

C24_SendFailureLeavesTaskDue == []C24_NotTriedAgain /\ [][C24_Step]_vars

\* C25: nothing that goes wrong inside a tick ends the loop: after an
\* exception of the due-set query, of the quarantine recovery, of a send or
\* of mark_reminded, and after mark_reminded found its task deleted, the
\* thread has not returned unless stop() was called, and it starts another
\* tick unless stop() is called.  The clock of the model stops on day
\* MaxDay, so the ticks of its last instant are left out of the second half.
C25_InTick(t) == now = t /\ pc \in {"loop", "mark"}

C25_NextTick ==
    \A t \in Instants :
        (C25_InTick(t) /\ t < MaxDay * DaySeconds)
        ~> (_stop \/ \E x \in Instants : x > t /\ C25_InTick(x))

C25_LoopSurvives == [](pc = "exited" => _stop) /\ C25_NextTick

\* after a tick in which mark_reminded raised behind a send that returned,
\* a later tick has started, and its due-set query raised in its turn
C25_Witness ==
    /\ pc = "loop"
    /\ ~_stop
    /\ now > 0
    /\ faults = {Fault("fetch_due_reminders", 0)}
    /\ \E i \in Live : sent[i] > 0 /\ todos[i].last_remind_at = None

\* C26: once stop() has set the event, no tick starts after the one in
\* progress (so only that tick still sends), and _run returns.  The clock of
\* the model stops on day MaxDay, so a stop() during the tick of its last
\* instant is left out of the second half.
C26_Step ==
    _stop => /\ _stop'
             /\ pc = "idle" => pc' \in {"idle", "exited"}
             /\ pc = "exited" => pc' = "exited"
             /\ fetched' # fetched => fetched' = <<>>
             /\ Len(tried') > Len(tried) => (pc = "loop" /\ now' = now)

C26_Returns == (_stop /\ now < MaxDay * DaySeconds) ~> (pc = "exited")

C26_StopEndsTheLoop == [][C26_Step]_vars /\ C26_Returns

\* stop() was called, and the thread has returned after the sleep of a tick
\* that notified a task
C26_Witness ==
    /\ _stop
    /\ pc = "exited"
    /\ now > 0
    /\ \E i \in Live : todos[i].last_remind_at # None
                       /\ todos[i].last_remind_at + TickSeconds = now

\* C27: complete_todo, delete_todo, edit_todo, update_todo,
\* reset_failed_todo and undo_todo, called with an id that no task has or
\* that a task of another user has, return their not-found result and leave
\* the table as it is.
C27_Missing(u, i) == i \notin Live \/ todos[i].user_id # u

C27_Called(u, i) ==
    \/ complete_todo(u, i)
    \/ delete_todo(u, i)
    \/ \E t \in Times, c \in BOOLEAN : edit_todo(u, i, t, c)
    \/ \E t \in Times, r \in Rules : update_todo(u, i, t, r)
    \/ reset_failed_todo(u, i)
    \/ undo_todo(u, i)

\* read from the result back to the call: a user operation that wrote the
\* table or returned anything but not-found is none of the six called with
\* such an id
C27_Step ==
    (ops' # ops /\ ~(todos' = todos /\ next_id' = next_id /\ lastOp'.op = "not_found"))
    => \A u \in Users, i \in Ids : C27_Missing(u, i) => ~C27_Called(u, i)

C27_NotFound == [][C27_Step]_vars

\* a user has named a task of another user, which is still there
C27_Witness ==
    /\ lastOp = Op("not_found", 0, "foreign")
    /\ \E i \in Live : todos[i].user_id = "u1" /\ todos[i].status = "pending"
    /\ ops = MaxUserOps

\* C28: the repeat_rule of every task is NULL or one of daily, workday,
\* weekly, monthly, and mark_reminded never gives the calculator another
\* rule.
C28_OnlyKnownRules ==
    /\ \A i \in Live : todos[i].repeat_rule \in KnownRules \cup {NoRule}
    /\ pc = "mark" => m.row.repeat_rule \in KnownRules \cup {NoRule}

\* C29: after edit_todo or update_todo has set a remind_at on a task, the
\* task has reminded = FALSE and remind_count = 0.
C29_Step ==
    \A u \in Users, i \in Ids, t \in RemindInputs :
        (/\ i \in Live
         /\ todos[i].user_id = u
         /\ \/ edit_todo(u, i, t, FALSE)
            \/ \E r \in Rules : update_todo(u, i, t, r))
        => /\ todos'[i].remind_at = t
           /\ todos'[i].reminded = FALSE
           /\ todos'[i].remind_count = 0

C29_FreshAfterNewTime == [][C29_Step]_vars

\* C30: at a tick that reads the clock as `now`, a pending task with
\* reminded = FALSE and remind_at = R is in the first-due part of the due
\* list exactly when R <= now (the list holding at most 50 such tasks), and
\* nothing else is in that part; so a task created with remind_at one second
\* before the next tick is first-due at that tick and is notified by no
\* earlier tick.
C30_FirstDue(i) ==
    /\ todos'[i].status = "pending"
    /\ todos'[i].reminded = FALSE
    /\ todos'[i].remind_at # None
    /\ todos'[i].remind_at <= now

C30_Step ==
    (pc = "idle" /\ pc' = "loop")
    => LET first == initial_reminds(todos', now)
       IN /\ Len(first) <= Len(due')
          /\ SubSeq(due', 1, Len(first)) = first
          /\ Len(first) <= PageLimit
          /\ \A i \in Range(first) : i \in DOMAIN todos' /\ C30_FirstDue(i)
          /\ Cardinality({ i \in DOMAIN todos' : C30_FirstDue(i) }) <= PageLimit
             => \A i \in DOMAIN todos' : C30_FirstDue(i) => i \in Range(first)

C30_NotEarly ==
    (pc = "mark" /\ m.row.last_remind_at = None)
    => (m.row.remind_at # None /\ m.row.remind_at <= now)

C30_FirstDueFromRemindAt == []C30_NotEarly /\ [][C30_Step]_vars

\* the tick of 00:01:00 notifies, for the first time, a task whose remind_at
\* is 00:00:59, and leaves alone a task whose remind_at is one clock
\* reading after the tick
C30_Witness ==
    /\ pc = "mark"
    /\ now = TickSeconds
    /\ m.row.remind_at = TickSeconds - Hz
    /\ m.row.last_remind_at = None
    /\ sent[m.id] = 1
    /\ \E i \in Live : /\ todos[i].remind_at = TickSeconds + 1
                       /\ todos[i].last_remind_at = None
                       /\ sent[i] = 0
                       /\ i \notin Range(fetched)

\* C31: for each of the rules daily, workday, weekly and monthly and every
\* remind_at, the time _calculate_next_remind_time returns is later than
\* the remind_at it was given.
C31_Step ==
    (pc = "mark" /\ pc' = "loop" /\ m.row.repeat_rule \in KnownRules)
    => /\ todos'[m.id].remind_at # None
       /\ todos'[m.id].remind_at > m.row.remind_at

C31_NextIsLater == [][C31_Step]_vars

\* mark_reminded has moved a monthly task from 31 December to January
C31_Witness ==
    /\ lastOp = Op("mark_reminded", 1, "pending")
    /\ todos[1].repeat_rule = "monthly"
    /\ now = DateTime(EpochYear, 12, 31, 9 * 3600 * Hz)
    /\ todos[1].remind_at > now
    /\ Civil(todos[1].remind_at) = <<EpochYear + 1, 1, 31>>

\* C32: the monthly rule gives the same hour, minute and second in the next
\* calendar month, January of the next year after December, on the day of
\* the input or on the last day of that month when it has fewer days:
\* 31 January 09:00 gives 29 February 09:00 in the leap year 2024 (day 30
\* to day 59 of the calendar) and 28 February 09:00 in 2025 (day 396 to day
\* 424).
C32_Step ==
    (pc = "mark" /\ pc' = "loop" /\ m.row.repeat_rule = "monthly")
    => LET t == m.row.remind_at
           next == todos'[m.id].remind_at
           c == Civil(t)
           n == Civil(next)
       IN /\ <<n[1], n[2]>> = IF c[2] = 12 THEN <<c[1] + 1, 1>> ELSE <<c[1], c[2] + 1>>
          /\ n[3] = Min(c[3], monthrange(n[1], n[2]))
          /\ (next % DaySeconds) \div Hz = (t % DaySeconds) \div Hz
          /\ t = 30 * DaySeconds + 9 * 3600 * Hz
             => next = 59 * DaySeconds + 9 * 3600 * Hz
          /\ t = 396 * DaySeconds + 9 * 3600 * Hz
             => next = 424 * DaySeconds + 9 * 3600 * Hz

C32_Monthly == [][C32_Step]_vars

\* mark_reminded has moved a monthly task from 31 January 2025 09:00 to
\* 28 February 2025 09:00
C32_Witness ==
    /\ lastOp = Op("mark_reminded", 1, "pending")
    /\ todos[1].repeat_rule = "monthly"
    /\ now = 396 * DaySeconds + 9 * 3600 * Hz
    /\ todos[1].remind_at = 424 * DaySeconds + 9 * 3600 * Hz
    /\ Civil(now) = <<EpochYear + 1, 1, 31>>
    /\ Civil(todos[1].remind_at) = <<EpochYear + 1, 2, 28>>

\* C33: the workday rule gives the same time one day later for a remind_at
\* on Monday to Thursday and the same time on the following Monday, three
\* days later, for a remind_at on a Friday; the result for a workday is a
\* workday.  1 January 2024, day 0 of the calendar, is a Monday.
C33_Day(t) == (t \div DaySeconds) % 7

C33_Step ==
    (/\ pc = "mark" /\ pc' = "loop"
     /\ m.row.repeat_rule = "workday"
     /\ C33_Day(m.row.remind_at) <= 4)
    => LET t == m.row.remind_at
           next == todos'[m.id].remind_at
       IN /\ next = IF C33_Day(t) = 4 THEN t + 3 * DaySeconds ELSE t + DaySeconds
          /\ C33_Day(next) = IF C33_Day(t) = 4 THEN 0 ELSE C33_Day(t) + 1
          /\ C33_Day(next) <= 4
          /\ next % DaySeconds = t % DaySeconds

C33_Workday == [][C33_Step]_vars

\* mark_reminded has moved a workday task from Friday 5 January 2024 09:00
\* to Monday 8 January 09:00
C33_Witness ==
    /\ lastOp = Op("mark_reminded", 1, "pending")
    /\ todos[1].repeat_rule = "workday"
    /\ now = 4 * DaySeconds + 9 * 3600 * Hz
    /\ todos[1].remind_at = 7 * DaySeconds + 9 * 3600 * Hz

\* C34: for a rule the calculator does not know, _calculate_next_remind_time
\* returns no next occurrence, and mark_reminded handles the task as a
\* one-shot task: remind_at is unchanged, reminded becomes true and
\* remind_count goes up by one.
C34_Step ==
    (/\ pc = "mark" /\ pc' = "loop"
     /\ m.row.repeat_rule \notin KnownRules \cup {NoRule})
    => /\ _calculate_next_remind_time(m.row.remind_at, m.row.repeat_rule) = None
       /\ m.id \in DOMAIN todos'
       /\ todos'[m.id].remind_at = m.row.remind_at
       /\ todos'[m.id].reminded
       /\ todos'[m.id].remind_count = m.row.remind_count + 1
       /\ todos'[m.id].repeat_rule = m.row.repeat_rule

C34_UnknownRuleIsOneShot == [][C34_Step]_vars

\* mark_reminded has run on a due task with the rule "cron"
C34_Witness ==
    /\ lastOp = Op("mark_reminded", 1, "pending")
    /\ todos[1].repeat_rule = "cron"
    /\ todos[1].remind_at = now
    /\ todos[1].reminded
    /\ todos[1].remind_count = 1

\* C35: in every reachable state, 0 <= remind_count <= 3 for every task
C35_CountInRange ==
    \A i \in DOMAIN todos :
        todos[i].remind_count >= 0 /\ todos[i].remind_count <= MaxReminds

\* C36: status and remind_count agree: a failed task has remind_count >= 3
\* and a pending task has remind_count < 3
C36_StatusAgreesWithCount ==
    \A i \in DOMAIN todos :
        /\ todos[i].status = "failed" => todos[i].remind_count >= MaxReminds
        /\ todos[i].status = "pending" => todos[i].remind_count < MaxReminds

\* reset_failed_todo has reopened a task that mark_reminded had set to failed
\* at remind_count 3: it is pending with remind_count 0
C36_Witness ==
    /\ lastOp = Op("reset_failed_todo", 1, "failed")
    /\ todos[1].status = "pending"
    /\ todos[1].remind_count = 0

\* ---------------------------------------------------------------- undo
\* Rows a table can hold when undo_todo is called: done tasks (never
\* notified, notified once, without a remind_at, given a rule by update_todo
\* after they were done, of another user), and tasks that are not done.
UndoRows ==
    { [Todo("u1", 0, NoRule) EXCEPT !.status = "done", !.completed_at = AckSecond],
      [Todo("u1", None, NoRule) EXCEPT !.status = "done", !.completed_at = AckSecond],
      Notified("u1", "done", AckSecond, NoRule, 1),
      [Notified("u1", "done", AckSecond, "daily", 1) EXCEPT !.reminded = TRUE],
      Notified("u2", "done", AckSecond, NoRule, 1),
      Todo("u1", 0, NoRule),
      Notified("u1", "pending", AckSecond, NoRule, 1),
      Notified("u1", "failed", AckSecond, NoRule, MaxReminds) }

UndoInit ==
    /\ todos \in UNION { [1..n -> UndoRows] : n \in 1..(MaxTodos - 1) }
    /\ next_id = Len(todos) + 1
    /\ now = TickSeconds
    /\ pc = "idle"
    /\ due = <<>>
    /\ m = NoMark
    /\ last_recover_check = None
    /\ dispatched = <<>>
    /\ _stop = FALSE
    /\ fetched = <<>>
    /\ tried = <<>>
    /\ faults = {}
    /\ lastOp = Op("init", 0, "absent")
    /\ run = [i \in DOMAIN todos |-> NoRun]
    /\ between = NoBetween
    /\ ops = 0
    /\ sent = [i \in DOMAIN todos |-> 0]

UndoNext ==
    \/ \E u \in Users, i \in Ids : undo_todo(u, i)
    \/ \E u \in Users, i \in Ids : complete_todo(u, i)
    \/ tick
    \/ dispatch(TRUE)
    \/ mark_reminded
    \/ sleep_on_time

UndoSpec == UndoInit /\ [][UndoNext]_vars

\* C37: every pending task with reminded = false and remind_at <= now is
\* eventually dispatched when the loop keeps ticking and every send for that
\* task succeeds, also when more first-due tasks exist than one page holds
\* and the sends of the other tasks keep failing.  The tasks whose sends
\* succeed are those of u2, stored under the first id or under the id after
\* the cohort, and due from the first instant on.
C37_FirstDue(i) ==
    /\ i \in DOMAIN todos
    /\ todos[i].status = "pending"
    /\ todos[i].reminded = FALSE
    /\ todos[i].remind_at # None
    /\ todos[i].remind_at <= now

C37_NoStarvation ==
    \A i \in {1, PageLimit, PageLimit + 1} :
        (C37_FirstDue(i) /\ todos[i].user_id = "u2" /\ now = 0)
        ~> (i \in DOMAIN sent /\ sent[i] > 0)

\* C38: undo_todo on a done task of the caller removes that task and adds one
\* new pending task under a new id, with the same remind_at and repeat_rule
\* and with remind_count 0, reminded false, last_remind_at none and
\* completed_at none, and leaves every other task as it was; on a pending or
\* failed task of the caller it changes no task.
C38_Undone(u, i) ==
    \E j \in DOMAIN todos' \ DOMAIN todos :
        /\ j # i
        /\ DOMAIN todos' = (DOMAIN todos \ {i}) \cup {j}
        /\ todos'[j].user_id = u
        /\ todos'[j].status = "pending"
        /\ todos'[j].remind_at = todos[i].remind_at
        /\ todos'[j].repeat_rule = todos[i].repeat_rule
        /\ todos'[j].remind_count = 0
        /\ todos'[j].reminded = FALSE
        /\ todos'[j].last_remind_at = None
        /\ todos'[j].completed_at = None
        /\ \A k \in DOMAIN todos \ {i} : todos'[k] = todos[k]

C38_Step ==
    ops' # ops =>
        \A u \in Users, i \in Ids :
            (undo_todo(u, i) /\ Found(u, i))
            => IF todos[i].status = "done"
               THEN C38_Undone(u, i)
               ELSE todos' = todos /\ next_id' = next_id

C38_UndoOnlyDone == [][C38_Step]_vars

\* undo_todo has replaced task 1, a task with the rule daily that was done
\* after one notification, by the pending task 2 with the same remind_at and
\* rule and with cleared counters
C38_Witness ==
    /\ lastOp = Op("undo_todo", 2, "done")
    /\ DOMAIN todos = {2}
    /\ todos[2] = Todo("u1", 0, "daily")
    /\ ops = 1

\* ----------------------------------------------------------- page cap
\* Tables with more first-due tasks than one page: a cohort of one-shot tasks
\* of u1 that are due and not yet notified, and one such task of u2, stored
\* before or after the cohort.
CapSizes == {PageLimit - 1, PageLimit}

CapTables ==
    { [i \in 1..(c + 1) |->
          Todo(IF i = (IF first THEN 1 ELSE c + 1) THEN "u2" ELSE "u1", 0, NoRule)] :
        c \in CapSizes, first \in BOOLEAN }

CapInit ==
    /\ todos \in CapTables
    /\ next_id = Len(todos) + 1
    /\ now = 0
    /\ pc = "idle"
    /\ due = <<>>
    /\ m = NoMark
    /\ last_recover_check = None
    /\ dispatched = <<>>
    /\ _stop = FALSE
    /\ fetched = <<>>
    /\ tried = <<>>
    /\ faults = {}
    /\ lastOp = Op("init", 0, "absent")
    /\ run = [i \in DOMAIN todos |-> NoRun]
    /\ between = NoBetween
    /\ ops = 0
    /\ sent = [i \in DOMAIN todos |-> 0]

\* self._send while the conversation of u1 cannot be reached: every send for
\* a task of u1 raises, every send for a task of another user returns
send_u1_unreachable ==
    /\ due # <<>>
    /\ Head(due) \in DOMAIN todos
    /\ dispatch(todos[Head(due)].user_id # "u1")

\* time.sleep(60) once the clock stands at the last instant of the model:
\* the loop goes on ticking, the clock is not advanced any further
sleep_at_horizon ==
    /\ pc = "loop"
    /\ due = <<>>
    /\ \A t \in Instants : t < now + TickSeconds
    /\ pc' = "idle"
    /\ dispatched' = <<>>
    /\ fetched' = <<>>
    /\ tried' = <<>>
    /\ UNCHANGED <<todos, next_id, now, due, m, last_recover_check, lastOp, run,
                   between, ops, sent, _stop, faults>>

CapNext ==
    \/ tick
    \/ send_u1_unreachable
    \/ mark_reminded
    \/ sleep_on_time
    \/ sleep_at_horizon

\* the loop keeps running: each of its steps is taken when it can be
CapSpec ==
    /\ CapInit
    /\ [][CapNext]_vars
    /\ WF_vars(tick)
    /\ WF_vars(send_u1_unreachable)
    /\ WF_vars(mark_reminded)
    /\ WF_vars(sleep_on_time)
    /\ WF_vars(sleep_at_horizon)

\* ------------------------------------------- chat quick acknowledgement
AckWindowSeconds == 300 * Hz    \* timedelta(minutes=5)

\* the select of _handle_batch_complete
recent_todos(tb, user, at) ==
    { i \in DOMAIN tb :
        /\ tb[i].user_id = user
        /\ tb[i].status \in {"pending", "failed"}
        /\ tb[i].last_remind_at # None
        /\ tb[i].last_remind_at >= at - AckWindowSeconds
        /\ tb[i].last_remind_at <= at }

\* the rows .order_by(Todo.last_remind_at) can return first
first_recent(tb, recent) ==
    { i \in recent : \A j \in recent : tb[i].last_remind_at <= tb[j].last_remind_at }

\* The handler loops over recent_todos inside its own "with get_session()"
\* block and calls complete_todo, which opens the same scoped session,
\* commits and closes it.  The commit expires every row loaded in the
\* session and the close detaches them; complete_todo reloads the row it
\* completed (t.title in its return value) and no other.  The first pass of
\* the loop goes through; reading todo.id of the second row raises, and the
\* handler's "except Exception" answers with the error reply.
_handle_batch_complete(user) ==
    /\ ops < MaxUserOps
    /\ ops' = ops + 1
    /\ LET recent == recent_todos(todos, user, now)
       IN IF recent = {}
          THEN /\ lastOp' = Op("_handle_batch_complete", 0, "absent")
               /\ UNCHANGED todos
          ELSE \E i \in first_recent(todos, recent) :
                 /\ todos' = [todos EXCEPT ![i] = complete_todo_row(@, now)]
                 /\ lastOp' = Op("_handle_batch_complete", i,
                                 IF Cardinality(recent) > 1 THEN "error"
                                 ELSE todos[i].status)
    /\ run' = RunAfter(todos')
    /\ sent' = SentAfter(todos', TRUE)
    /\ between' = IF pc = "mark" /\ m.id \in DOMAIN todos /\ todos'[m.id] # todos[m.id]
                  THEN Noted(m.id, "_handle_batch_complete", None, FALSE)
                  ELSE between
    /\ UNCHANGED <<next_id, now, sched>>

\* Rows a table can hold when the sender answers a notification: notified
\* exactly five minutes ago, within the window (one-shot, repeating, failed,
\* done, of another user), just before the window, and never notified.
ChatRows ==
    { Notified("u1", "pending", AckSecond, NoRule, 1),
      Notified("u1", "pending", AckSecond + 1, "daily", 1),
      Notified("u1", "failed", AckSecond + 1, NoRule, MaxReminds),
      Notified("u1", "pending", AckSecond - 1, NoRule, 1),
      Notified("u1", "done", AckSecond + 1, NoRule, 1),
      Notified("u2", "pending", AckSecond + 1, NoRule, 1),
      Todo("u1", 0, NoRule) }

ChatInit ==
    /\ todos \in UNION { [1..n -> ChatRows] : n \in 1..MaxTodos }
    /\ next_id = Len(todos) + 1
    /\ now = AckSecond + AckWindowSeconds
    /\ pc = "idle"
    /\ due = <<>>
    /\ m = NoMark
    /\ last_recover_check = None
    /\ dispatched = <<>>
    /\ _stop = FALSE
    /\ fetched = <<>>
    /\ tried = <<>>
    /\ faults = {}
    /\ lastOp = Op("init", 0, "absent")
    /\ run = [i \in DOMAIN todos |-> NoRun]
    /\ between = NoBetween
    /\ ops = 0
    /\ sent = [i \in DOMAIN todos |-> 0]

ChatNext ==
    \/ \E u \in Users : _handle_batch_complete(u)
    \/ tick
    \/ dispatch(TRUE)
    \/ mark_reminded

ChatSpec == ChatInit /\ [][ChatNext]_vars

\* C39: the quick-acknowledgement handler applies complete_todo to exactly
\* the sender's pending or failed tasks whose last_remind_at lies in
\* [now - 5 minutes, now] and leaves every other task unchanged; when no
\* task qualifies it changes no task.
C39_Step ==
    ops' # ops =>
        \A u \in Users :
            _handle_batch_complete(u)
            => todos' = [i \in DOMAIN todos |->
                            IF i \in recent_todos(todos, u, now)
                            THEN complete_todo_row(todos[i], now)
                            ELSE todos[i]]

C39_AcknowledgesTheRecent == [][C39_Step]_vars

====
